---- MODULE Spec2Model ----
(***************************************************************************)
(* Model of the nutritional-insights repository: the ingestion and         *)
(* reporting pipeline (data_analysis.py) and the remote fetch job          *)
(* (lambda_function.py).                                                   *)
(*                                                                         *)
(* Numbers are IEEE-754 binary64 values, as pandas holds a numeric column  *)
(* (float64).  A finite non-negative double is <<hi, lo, e>>: its 53-bit   *)
(* significand is m = hi * 2^27 + lo with 2^52 <= m < 2^53 (or m = 0 for   *)
(* zero) and its value is m * 2^e.  Sums and quotients round to nearest,   *)
(* ties to even, as the hardware does.                                     *)
(***************************************************************************)
EXTENDS Integers, Sequences, FiniteSets, TLC

B21 == 2^21
B22 == 2^22
B25 == 2^25
B26 == 2^26
B27 == 2^27

FZero == <<0, 0, 0>>

IsZero(x) == x[1] = 0 /\ x[2] = 0

\* st = <<hi, e>>: shift the significand's top limb left until it is normal.
RECURSIVE NormUp(_)
NormUp(st) == IF st[1] >= B25 THEN <<st[1], 0, st[2]>> ELSE NormUp(<<2 * st[1], st[2] - 1>>)

\* float(n) for a small natural n (exact).
FromInt(n) == IF n = 0 THEN FZero ELSE NormUp(<<n, -27>>)

\* a < b on non-negative doubles.
FLt(a, b) ==
  IF IsZero(b) THEN FALSE
  ELSE IF IsZero(a) THEN TRUE
  ELSE \/ a[3] < b[3]
       \/ a[3] = b[3] /\ a[1] < b[1]
       \/ a[3] = b[3] /\ a[1] = b[1] /\ a[2] < b[2]

Incr(hi, lo, e) ==
  IF lo + 1 < B27 THEN <<hi, lo + 1, e>>
  ELSE IF hi + 1 < B26 THEN <<hi + 1, 0, e>>
  ELSE <<B25, 0, e + 1>>

\* Round a wide significand (hi, lo) >= 2^52, followed by a round bit r and
\* a sticky bit s, to 53 bits: nearest, ties to even.
RECURSIVE RoundPack(_, _, _, _, _)
RoundPack(hi, lo, e, r, s) ==
  IF hi >= B26
  THEN RoundPack(hi \div 2, (lo \div 2) + (hi % 2) * B26, e + 1,
                 lo % 2, IF r + s > 0 THEN 1 ELSE 0)
  ELSE IF r = 1 /\ (s = 1 \/ lo % 2 = 1) THEN Incr(hi, lo, e)
  ELSE <<hi, lo, e>>

\* (hi, lo) shifted right by d bits, 0 <= d <= 55: <<hi, lo, r, s>> with r the
\* last bit shifted out and s the OR of the bits shifted out before it.
ShiftR(hi, lo, d) ==
  IF d = 0 THEN <<hi, lo, 0, 0>>
  ELSE IF d <= 27
  THEN LET P   == 2^d
           out == lo % P
       IN <<hi \div P, (lo \div P) + (hi % P) * 2^(27 - d), out \div (P \div 2),
            IF out % (P \div 2) > 0 THEN 1 ELSE 0>>
  ELSE LET P   == 2^(d - 27)
           out == hi % P
       IN <<0, hi \div P, out \div (P \div 2),
            IF out % (P \div 2) > 0 \/ lo > 0 THEN 1 ELSE 0>>

AddOrdered(a, b) ==
  LET d == a[3] - b[3]
  IN IF d > 55 THEN a
     ELSE LET sb == ShiftR(b[1], b[2], d)
              lo == a[2] + sb[2]
              c  == IF lo >= B27 THEN 1 ELSE 0
          IN RoundPack(a[1] + sb[1] + c, lo - c * B27, a[3], sb[3], sb[4])

\* a + b in binary64.
FAdd(a, b) ==
  IF IsZero(a) THEN b
  ELSE IF IsZero(b) THEN a
  ELSE IF FLt(a, b) THEN AddOrdered(b, a) ELSE AddOrdered(a, b)

\* (rhi, rlo) >= (bhi, blo) on two-limb naturals.
GeqLimbs(rhi, rlo, bhi, blo) == rhi > bhi \/ (rhi = bhi /\ rlo >= blo)

\* Restoring division, st = <<i, rhi, rlo, qhi, qlo>>: i more quotient bits of
\* the remainder (rhi, rlo) by (bhi, blo); the third result is the sticky bit.
RECURSIVE DivLoop(_, _, _)
DivLoop(st, bhi, blo) ==
  IF st[1] = 0
  THEN <<st[4], st[5], IF st[2] = 0 /\ st[3] = 0 THEN 0 ELSE 1>>
  ELSE LET bit == IF GeqLimbs(st[2], st[3], bhi, blo) THEN 1 ELSE 0
           brw == IF bit = 1 /\ st[3] < blo THEN 1 ELSE 0
           shi == st[2] - bit * bhi - brw
           slo == st[3] - bit * blo + brw * B27
           q2l == 2 * st[5] + bit
           qc  == IF q2l >= B27 THEN 1 ELSE 0
           r2l == 2 * slo
           rc  == IF r2l >= B27 THEN 1 ELSE 0
       IN DivLoop(<<st[1] - 1, 2 * shi + rc, r2l - rc * B27,
                    2 * st[4] + qc, q2l - qc * B27>>, bhi, blo)

\* a / b when b's significand has at most four significant bits (b = n * 2^k
\* with 8 <= n < 16): schoolbook division of the limbs by n, six extra
\* quotient bits, and the remainder as the sticky bit.
DivSmall(a, b) ==
  LET n  == b[1] \div B22
      r1 == a[1] % n
      t  == r1 * B27 + a[2]
      q2 == t \div n
      r2 == t % n
      q3 == (r2 * 64) \div n
  IN RoundPack((a[1] \div n) * 64 + (q2 \div B21), (q2 % B21) * 64 + q3,
               a[3] - b[3] - 55, 0, IF (r2 * 64) % n > 0 THEN 1 ELSE 0)

\* a / b by restoring division of the significands.
DivLong(a, b) ==
  LET ge == GeqLimbs(a[1], a[2], b[1], b[2])
      n2l == 2 * a[2]
      nc  == IF n2l >= B27 THEN 1 ELSE 0
      nhi == IF ge THEN a[1] ELSE 2 * a[1] + nc
      nlo == IF ge THEN a[2] ELSE n2l - nc * B27
      q   == DivLoop(<<54, nhi, nlo, 0, 0>>, b[1], b[2])
  IN RoundPack(q[1], q[2], a[3] - b[3] - (IF ge THEN 53 ELSE 54), 0, q[3])

\* a / b in binary64, b > 0.
FDiv(a, b) ==
  IF IsZero(a) THEN FZero
  ELSE IF b[2] = 0 /\ b[1] % B22 = 0 THEN DivSmall(a, b)
  ELSE DivLong(a, b)


(***************************************************************************)
(* Cells and tables.  A cell is a missing value (NaN / NA), a string or a  *)
(* double.  A table (DataFrame) has n rows and maps each column name to    *)
(* its n cells; row i is what pandas labels i - 1.                         *)
(***************************************************************************)
NA == <<"na">>
Inf == <<"inf">>
Str(s) == <<"s", s>>
Num(f) == <<"f", f>>
NumInt(k) == Num(FromInt(k))

IsNA(c) == c[1] = "na"
IsNum(c) == c[1] = "f"
IsStr(c) == c[1] = "s"

Columns(t) == DOMAIN t.col

\* select_dtypes(include=["number"]): read_csv gives float64 (or int64) to a
\* column whose cells are all numbers or empty, an all-empty column included.
IsNumericCol(c) == Len(c) > 0 /\ \A i \in 1..Len(c) : IsNum(c[i]) \/ IsNA(c[i])

numeric_cols(t) == {c \in Columns(t) : IsNumericCol(t.col[c])}

\* Series.isna().sum()
CountNA(c) == Cardinality({i \in 1..Len(c) : IsNA(c[i])})

RECURSIVE SumOver(_, _)
SumOver(S, f) ==
  IF S = {} THEN 0 ELSE LET x == CHOOSE y \in S : TRUE IN f[x] + SumOver(S \ {x}, f)

\* df[cols].isna().sum().sum()
MissingIn(t, cols) == SumOver(cols, [c \in cols |-> CountNA(t.col[c])])

\* The float64 sum of the non-missing cells of c from row i on, added in row
\* order to acc (NaN counts as 0.0).
RECURSIVE SumFrom(_, _, _)
SumFrom(c, i, acc) ==
  IF i > Len(c) THEN acc
  ELSE SumFrom(c, i + 1, IF IsNum(c[i]) THEN FAdd(acc, c[i][2]) ELSE acc)

\* Series.mean(): the sum of the non-missing cells over their count; NaN when
\* there is none.
Mean(c) ==
  LET cnt == Len(c) - CountNA(c)
  IN IF cnt = 0 THEN NA ELSE Num(FDiv(SumFrom(c, 1, FZero), FromInt(cnt)))

\* Series.fillna(value): a missing value stays missing when value is NaN.
FillZero(c, value) == [i \in 1..Len(c) |-> IF IsNA(c[i]) THEN NumInt(0) ELSE c[i]]
fillna(c, value) == [i \in 1..Len(c) |-> IF IsNA(c[i]) THEN value ELSE c[i]]

\* The cleaning loop: every numeric column with a missing cell is filled with
\* its own mean.
CleanCol(c) == IF CountNA(c) > 0 THEN fillna(c, Mean(c)) ELSE c

Cleaned(t) ==
  [t EXCEPT !.col = [c \in Columns(t) |->
                       IF IsNumericCol(t.col[c]) THEN CleanCol(t.col[c]) ELSE t.col[c]]]

(***************************************************************************)
(* Column resolution.                                                      *)
(***************************************************************************)
None == "None"

DietNames == <<"Diet_type", "Diet Type", "diet_type", "diet">>
RecipeNames == <<"Recipe_name", "Recipe Name", "recipe_name", "Recipe">>
CuisineNames == <<"Cuisine_type", "Cuisine Type", "cuisine_type", "Cuisine">>
ProteinNames == <<"Protein(g)", "Protein", "protein">>
CarbsNames == <<"Carbs(g)", "Carbs", "carbs", "Carbohydrates(g)", "Carbohydrates">>
FatNames == <<"Fat(g)", "Fat", "fat">>

Fields == {"diet", "recipe", "cuisine", "protein", "carbs", "fat"}

Candidates(f) ==
  CASE f = "diet" -> DietNames
    [] f = "recipe" -> RecipeNames
    [] f = "cuisine" -> CuisineNames
    [] f = "protein" -> ProteinNames
    [] f = "carbs" -> CarbsNames
    [] f = "fat" -> FatNames

Range(s) == {s[i] : i \in 1..Len(s)}

PickLast(possible_names, columns) ==
  LET hits == {i \in 1..Len(possible_names) : possible_names[i] \in columns}
  IN IF hits = {} THEN None
     ELSE possible_names[CHOOSE i \in hits : \A j \in hits : i >= j]

\* The first name of possible_names that is a column of the table, else None.
pick_col(possible_names, columns) ==
  LET hits == {i \in 1..Len(possible_names) : possible_names[i] \in columns}
  IN IF hits = {} THEN None
     ELSE possible_names[CHOOSE i \in hits : \A j \in hits : i <= j]

Resolve(t) == [f \in Fields |-> pick_col(Candidates(f), Columns(t))]

(***************************************************************************)
(* Grouping, sorting and selection.                                        *)
(***************************************************************************)
\* The labels the input tables use, in the order groupby sorts its keys.
DietLabels == <<"A", "B">>
CuisineLabels == <<"Asian", "Italian">>

Min(S) == CHOOSE x \in S : \A y \in S : x <= y

\* The elements of s at the positions in P, in order.
RECURSIVE KeepFrom(_, _, _)
KeepFrom(s, P, p) ==
  IF p > Len(s) THEN <<>>
  ELSE (IF p \in P THEN <<s[p]>> ELSE <<>>) \o KeepFrom(s, P, p + 1)

Keep(s, P) == KeepFrom(s, P, 1)

\* groupby keys: the labels that occur in the column (missing keys are
\* dropped), sorted.
GroupKeys(keycol, labels) ==
  Keep(labels, {p \in 1..Len(labels) : \E i \in 1..Len(keycol) : keycol[i] = Str(labels[p])})

\* One pass over the rows, as groupby's mean makes it: acc maps each key to
\* <<sumx, nobs>> over the rows of that key whose value is not missing.
RECURSIVE GroupAcc(_, _, _, _)
GroupAcc(keycol, valcol, i, acc) ==
  IF i > Len(keycol) THEN acc
  ELSE GroupAcc(keycol, valcol, i + 1,
                IF IsStr(keycol[i]) /\ IsNum(valcol[i])
                THEN [acc EXCEPT ![keycol[i][2]] = <<FAdd(@[1], valcol[i][2]), @[2] + 1>>]
                ELSE acc)

\* groupby(key)[val].mean(): key -> mean of the group, NaN for a group with no
\* value.
GroupMean(keycol, valcol, labels) ==
  LET keys == Range(GroupKeys(keycol, labels))
      acc  == GroupAcc(keycol, valcol, 1, [l \in keys |-> <<FZero, 0>>])
  IN [l \in keys |-> IF acc[l][2] = 0 THEN NA
                     ELSE Num(FDiv(acc[l][1], FromInt(acc[l][2])))]

\* a >= b as sort_values(ascending=False) orders keys: NaN goes last.
KeyGeq(a, b) == IsNA(b) \/ (IsNum(a) /\ ~FLt(a[2], b[2]))

InsertAsc(s, x) ==
  LET above == {j \in 1..Len(s) : ~KeyGeq(x[1], s[j][1])}
      p == IF above = {} THEN Len(s) + 1 ELSE Min(above)
  IN SubSeq(s, 1, p - 1) \o <<x>> \o SubSeq(s, p, Len(s))

\* x = <<key, payload>> put into s, sorted by non-increasing key, behind the
\* elements whose key is not below its own (a stable sort).
InsertDesc(s, x) ==
  LET below == {j \in 1..Len(s) : ~KeyGeq(s[j][1], x[1])}
      p == IF below = {} THEN Len(s) + 1 ELSE Min(below)
  IN SubSeq(s, 1, p - 1) \o <<x>> \o SubSeq(s, p, Len(s))

RECURSIVE SortFrom(_, _, _)
SortFrom(items, i, acc) ==
  IF i > Len(items) THEN acc ELSE SortFrom(items, i + 1, InsertDesc(acc, items[i]))

\* sort_values(by=key, ascending=False) of <<key, payload>> items.
SortDesc(items) == SortFrom(items, 1, <<>>)

\* groupby(...).head(k) over the group label of each position: the positions
\* that have fewer than k earlier positions of the same group.
HeadAll(groups, k) == {p \in 1..Len(groups) : IsStr(groups[p])}

HeadPerGroup(groups, k) ==
  {p \in 1..Len(groups) :
     /\ IsStr(groups[p])
     /\ Cardinality({q \in 1..(p - 1) : groups[q] = groups[p]}) < k}

HeadN == 5
TopCuisines == 3

\* avg_macros: one row per diet type with the group means, sorted by mean
\* protein, highest first.
AvgMacros(t, cols) ==
  LET diet == t.col[cols["diet"]]
      keys == GroupKeys(diet, DietLabels)
      mp   == GroupMean(diet, t.col[cols["protein"]], DietLabels)
      mc   == GroupMean(diet, t.col[cols["carbs"]], DietLabels)
      mf   == GroupMean(diet, t.col[cols["fat"]], DietLabels)
      rows == [j \in 1..Len(keys) |->
                 <<mp[keys[j]], [diet |-> keys[j], protein |-> mp[keys[j]],
                                 carbs |-> mc[keys[j]], fat |-> mf[keys[j]]]>>]
      srt  == SortDesc(rows)
  IN [j \in 1..Len(srt) |-> srt[j][2]]

\* top5_by_diet: the rows (by row number) sorted by protein, highest first,
\* cut to the first five of each diet type.
Top5ByDiet(t, cols) ==
  LET srt   == SortDesc([i \in 1..t.n |-> <<t.col[cols["protein"]][i], i>>])
      order == [p \in 1..Len(srt) |-> srt[p][2]]
      diets == [p \in 1..Len(order) |-> t.col[cols["diet"]][order[p]]]
  IN Keep(order, HeadPerGroup(diets, HeadN))

\* Series.idxmax(): the label of the first maximum, missing values skipped;
\* None stands for the error it raises on an empty or all-missing series
\* (or, in older pandas, the NaN label that .loc then fails to find).
IdxMaxProtein(rows) ==
  LET valid == {j \in 1..Len(rows) : IsNum(rows[j].protein)}
      tops  == {j \in valid : \A k \in valid : ~FLt(rows[j].protein[2], rows[k].protein[2])}
  IN IF valid = {} THEN None ELSE rows[Min(tops)].diet

\* groupby([diet, cuisine]).size(), sorted by count (highest first), cut to
\* the first three cuisines of each diet type.
TopCuisinePerDiet(t, cols) ==
  LET diet  == t.col[cols["diet"]]
      cuis  == t.col[cols["cuisine"]]
      dk    == GroupKeys(diet, DietLabels)
      ck    == GroupKeys(cuis, CuisineLabels)
      nc    == Len(ck)
      size(d, c) == Cardinality({i \in 1..t.n : diet[i] = Str(d) /\ cuis[i] = Str(c)})
      pairs == [q \in 1..(Len(dk) * nc) |->
                  LET d == dk[((q - 1) \div nc) + 1]
                      c == ck[((q - 1) % nc) + 1]
                  IN <<NumInt(size(d, c)), [diet |-> d, cuisine |-> c, count |-> size(d, c)]>>]
      seen  == Keep(pairs, {q \in 1..Len(pairs) : pairs[q][2].count > 0})
      srt   == SortDesc(seen)
      grp   == [p \in 1..Len(srt) |-> Str(srt[p][2].diet)]
      top   == Keep(srt, HeadPerGroup(grp, TopCuisines))
  IN [p \in 1..Len(top) |-> top[p][2]]

(***************************************************************************)
(* Ratio metrics.                                                          *)
(***************************************************************************)
KeepZero(c) == c

\* Series.replace(0, pd.NA)
replace_zero(c) == [i \in 1..Len(c) |-> IF IsNum(c[i]) /\ IsZero(c[i][2]) THEN NA ELSE c[i]]

\* Element-wise float division: a missing operand gives a missing result, and
\* a zero divisor gives an infinity (0 / 0 gives NaN), never an error.
CellDiv(a, b) ==
  IF ~IsNum(a) \/ ~IsNum(b) THEN NA
  ELSE IF IsZero(b[2]) THEN (IF IsZero(a[2]) THEN NA ELSE Inf)
  ELSE Num(FDiv(a[2], b[2]))

SeriesDiv(x, y) == [i \in 1..Len(x) |-> CellDiv(x[i], y[i])]

PCRatio == "Protein_to_Carbs_ratio"
CFRatio == "Carbs_to_Fat_ratio"

SetCol(t, name, c) ==
  [t EXCEPT !.col = [k \in Columns(t) \cup {name} |-> IF k = name THEN c ELSE t.col[k]]]

WithRatios(t, cols) ==
  LET safe_carbs == replace_zero(t.col[cols["carbs"]])
      safe_fat   == replace_zero(t.col[cols["fat"]])
      t1 == SetCol(t, PCRatio, SeriesDiv(t.col[cols["protein"]], safe_carbs))
  IN SetCol(t1, CFRatio, SeriesDiv(t1.col[cols["carbs"]], safe_fat))

(***************************************************************************)
(* Input tables: the content of All_Diets.csv as read_csv parses it.       *)
(***************************************************************************)
MaxRows == 6

Row(d, c, p, cb, f) ==
  [diet |-> d, recipe |-> Str("r"), cuisine |-> c, protein |-> p, carbs |-> cb, fat |-> f]

FieldOf(name) == CHOOSE f \in Fields : name \in Range(Candidates(f))

\* The table whose header holds, for each field f, the spellings hdr[f], and
\* whose rows are `rows`.
MkTable(hdr, rows) ==
  [n |-> Len(rows),
   col |-> [name \in UNION {hdr[f] : f \in Fields} |->
              [i \in 1..Len(rows) |-> rows[i][FieldOf(name)]]]]

StdHeader == [f \in Fields |-> {Candidates(f)[1]}]

\* One diet type, MaxRows rows, protein missing, 0 or 1 in each.
TallTables ==
  {MkTable(StdHeader, [i \in 1..MaxRows |->
                         Row(Str("A"), Str("Asian"), ps[i], NumInt(1), NumInt(1))]) :
     ps \in [1..MaxRows -> {NA, NumInt(0), NumInt(1)}]}

MacroOptions ==
  {<<NA, NumInt(0), NumInt(1)>>, <<NumInt(1), NA, NumInt(0)>>, <<NumInt(2), NumInt(1), NA>>,
   <<NumInt(0), NumInt(2), NumInt(2)>>, <<NA, NA, NA>>}

RowOptions ==
  {Row(Str(d), Str(IF m[2] = NA THEN "Italian" ELSE "Asian"), m[1], m[2], m[3]) :
     d \in Range(DietLabels), m \in MacroOptions}
  \cup {Row(NA, Str("Asian"), NumInt(1), NumInt(1), NumInt(1))}

\* One or two rows, every field varying, missing values and zeros included.
WideTables ==
  {MkTable(StdHeader, <<r>>) : r \in RowOptions}
  \cup {MkTable(StdHeader, <<r1, r2>>) : r1 \in RowOptions, r2 \in RowOptions}

\* Diet types A, A, B with protein 10, 20, 5.
ExampleRows ==
  <<Row(Str("A"), Str("Asian"), NumInt(10), NumInt(5), NumInt(1)),
    Row(Str("A"), Str("Italian"), NumInt(20), NumInt(0), NumInt(4)),
    Row(Str("B"), Str("Asian"), NumInt(5), NumInt(10), NumInt(0))>>

\* A table with missing values in every macro column.
MissingRows ==
  <<Row(Str("A"), Str("Asian"), NumInt(10), NumInt(1), NumInt(2)),
    Row(Str("A"), Str("Asian"), NA, NA, NumInt(1)),
    Row(Str("B"), Str("Italian"), NumInt(0), NumInt(0), NA),
    Row(Str("B"), Str("Asian"), NumInt(3), NumInt(0), NumInt(0))>>

\* The example rows under every header that spells one field in at most two
\* of its accepted ways, or not at all.
HeaderTables ==
  UNION {{MkTable([StdHeader EXCEPT ![f] = S], ExampleRows) :
            S \in {T \in SUBSET Range(Candidates(f)) : Cardinality(T) <= 2}} :
           f \in Fields}

Inputs ==
  TallTables \cup WideTables \cup {MkTable(StdHeader, ExampleRows), MkTable(StdHeader, MissingRows)}
  \cup HeaderTables

(***************************************************************************)
(* The two programs.  They share no state; the model runs the pipeline     *)
(* script to its end and then the remote job, on the same CSV content.     *)
(***************************************************************************)
VARIABLES
  csv,                  \* the dataset: data/All_Diets.csv and the blob All_Diets.csv
  pc,                   \* data_analysis.py: the section last completed
  df,                   \* its DataFrame
  missing_before,
  missing_after,
  cols,                 \* diet_col, recipe_col, cuisine_col, protein_col, carbs_col, fat_col
  avg_macros,
  top5_by_diet,
  highest_protein_diet,
  top_cuisine_per_diet,
  charts,               \* the image files written to output/
  exit_status,          \* "none" while running, then "0" or "1"
  rpc,                  \* lambda_function.py: the step last completed
  create_result,        \* what create_container did: "created", "exists", "error"
  failed,               \* the step whose exception ended the job, or "none"
  rdf,                  \* the job's DataFrame
  result,               \* the records it computed
  results_json,         \* simulated_nosql/results.json
  returned              \* the job's return value

vars == <<csv, pc, df, missing_before, missing_after, cols, avg_macros, top5_by_diet,
          highest_protein_diet, top_cuisine_per_diet, charts, exit_status,
          rpc, create_result, failed, rdf, result, results_json, returned>>

pipeVars == <<df, missing_before, missing_after, cols, avg_macros, top5_by_diet,
              highest_protein_diet, top_cuisine_per_diet, charts, exit_status>>

jobVars == <<rpc, create_result, failed, rdf, result, results_json, returned>>

EmptyTable == [n |-> 0, col |-> <<>>]
NoFile == [written |-> FALSE, data |-> <<>>]

Init ==
  /\ csv \in Inputs
  /\ pc = "start"
  /\ df = EmptyTable
  /\ missing_before = 0
  /\ missing_after = 0
  /\ cols = [f \in Fields |-> None]
  /\ avg_macros = <<>>
  /\ top5_by_diet = <<>>
  /\ highest_protein_diet = None
  /\ top_cuisine_per_diet = <<>>
  /\ charts = {}
  /\ exit_status = "none"
  /\ rpc = "start"
  /\ create_result = "none"
  /\ failed = "none"
  /\ rdf = EmptyTable
  /\ result = <<>>
  /\ results_json = NoFile
  /\ returned = "none"

\* 1) Load dataset
Load ==
  /\ pc = "start"
  /\ df' = csv
  /\ pc' = "loaded"
  /\ UNCHANGED <<csv, missing_before, missing_after, cols, avg_macros, top5_by_diet,
                 highest_protein_diet, top_cuisine_per_diet, charts, exit_status>>
  /\ UNCHANGED jobVars

\* 2) Data cleaning: fill missing numeric values with mean
Clean ==
  /\ pc = "loaded"
  /\ missing_before' = MissingIn(df, numeric_cols(df))
  /\ df' = Cleaned(df)
  /\ missing_after' = MissingIn(df', numeric_cols(df))
  /\ pc' = "cleaned"
  /\ UNCHANGED <<csv, cols, avg_macros, top5_by_diet, highest_protein_diet,
                 top_cuisine_per_diet, charts, exit_status>>
  /\ UNCHANGED jobVars

\* Column detection, and SystemExit(1) when a required column is missing.
DetectColumns ==
  /\ pc = "cleaned"
  /\ cols' = Resolve(df)
  /\ IF \E f \in Fields : cols'[f] = None
     THEN pc' = "aborted" /\ exit_status' = "1"
     ELSE pc' = "detected" /\ exit_status' = exit_status
  /\ UNCHANGED <<csv, df, missing_before, missing_after, avg_macros, top5_by_diet,
                 highest_protein_diet, top_cuisine_per_diet, charts>>
  /\ UNCHANGED jobVars

\* 3) Average macros per diet type
AverageMacros ==
  /\ pc = "detected"
  /\ avg_macros' = AvgMacros(df, cols)
  /\ pc' = "averaged"
  /\ UNCHANGED <<csv, df, missing_before, missing_after, cols, top5_by_diet,
                 highest_protein_diet, top_cuisine_per_diet, charts, exit_status>>
  /\ UNCHANGED jobVars

\* 4) Top 5 protein-rich recipes per diet type
Top5 ==
  /\ pc = "averaged"
  /\ top5_by_diet' = Top5ByDiet(df, cols)
  /\ pc' = "top5"
  /\ UNCHANGED <<csv, df, missing_before, missing_after, cols, avg_macros,
                 highest_protein_diet, top_cuisine_per_diet, charts, exit_status>>
  /\ UNCHANGED jobVars

\* 5) Diet type with highest average protein; idxmax (or the .loc lookup of
\* its result) raises when no diet type has a mean protein.
HighestProtein ==
  /\ pc = "top5"
  /\ IF IdxMaxProtein(avg_macros) = None
     THEN /\ pc' = "crashed"
          /\ exit_status' = "1"
          /\ UNCHANGED highest_protein_diet
     ELSE /\ pc' = "highest"
          /\ highest_protein_diet' = IdxMaxProtein(avg_macros)
          /\ UNCHANGED exit_status
  /\ UNCHANGED <<csv, df, missing_before, missing_after, cols, avg_macros, top5_by_diet,
                 top_cuisine_per_diet, charts>>
  /\ UNCHANGED jobVars

\* 6) Most common cuisines per diet type
CommonCuisines ==
  /\ pc = "highest"
  /\ top_cuisine_per_diet' = TopCuisinePerDiet(df, cols)
  /\ pc' = "cuisines"
  /\ UNCHANGED <<csv, df, missing_before, missing_after, cols, avg_macros, top5_by_diet,
                 highest_protein_diet, charts, exit_status>>
  /\ UNCHANGED jobVars

\* 7) New metrics (ratios)
Ratios ==
  /\ pc = "cuisines"
  /\ df' = WithRatios(df, cols)
  /\ pc' = "ratios"
  /\ UNCHANGED <<csv, missing_before, missing_after, cols, avg_macros, top5_by_diet,
                 highest_protein_diet, top_cuisine_per_diet, charts, exit_status>>
  /\ UNCHANGED jobVars

ChartFiles ==
  {"output/avg_macros_per_diet.png", "output/macro_heatmap.png",
   "output/top_protein_recipes_scatter.png"}

\* 8) Visualizations (save to output/)
Charts ==
  /\ pc = "ratios"
  /\ charts' = ChartFiles
  /\ pc' = "charts"
  /\ UNCHANGED <<csv, df, missing_before, missing_after, cols, avg_macros, top5_by_diet,
                 highest_protein_diet, top_cuisine_per_diet, exit_status>>
  /\ UNCHANGED jobVars

\* The script runs off its end: exit status 0.
Finish ==
  /\ pc = "charts"
  /\ pc' = "done"
  /\ exit_status' = "0"
  /\ UNCHANGED <<csv, df, missing_before, missing_after, cols, avg_macros, top5_by_diet,
                 highest_protein_diet, top_cuisine_per_diet, charts>>
  /\ UNCHANGED jobVars

PipelineEnded == pc \in {"done", "aborted", "crashed"}

(***************************************************************************)
(* process_nutritional_data_from_azurite                                   *)
(***************************************************************************)
CreateOutcomes == {"created", "exists", "error"}

RaiseUnlessCreated(outcome) == IF outcome = "created" THEN "container" ELSE "crashed"

\* try: create_container() / except Exception: every exception is caught,
\* whatever it is, and the job goes on.
AfterCreate(outcome) == "container"

CreateContainer(outcome) ==
  /\ PipelineEnded
  /\ rpc = "start"
  /\ create_result' = outcome
  /\ rpc' = AfterCreate(outcome)
  /\ failed' = IF rpc' = "crashed" THEN "create" ELSE failed
  /\ UNCHANGED <<csv, pc, rdf, result, results_json, returned>>
  /\ UNCHANGED pipeVars

\* download_blob().readall() and read_csv: either may raise.
Download(ok) ==
  /\ rpc = "container"
  /\ IF ok
     THEN rdf' = csv /\ rpc' = "downloaded" /\ UNCHANGED failed
     ELSE rdf' = rdf /\ rpc' = "crashed" /\ failed' = "download"
  /\ UNCHANGED <<csv, pc, create_result, result, results_json, returned>>
  /\ UNCHANGED pipeVars

JobColumns == {"Diet_type", "Protein(g)", "Carbs(g)", "Fat(g)"}

\* groupby("Diet_type")[...].mean().reset_index().to_dict(orient="records")
JobRecords(t) ==
  LET diet == t.col["Diet_type"]
      keys == GroupKeys(diet, DietLabels)
      mp   == GroupMean(diet, t.col["Protein(g)"], DietLabels)
      mc   == GroupMean(diet, t.col["Carbs(g)"], DietLabels)
      mf   == GroupMean(diet, t.col["Fat(g)"], DietLabels)
  IN [j \in 1..Len(keys) |-> [diet |-> keys[j], protein |-> mp[keys[j]],
                              carbs |-> mc[keys[j]], fat |-> mf[keys[j]]]]

\* Compute averages; a missing column is a KeyError.
Compute ==
  /\ rpc = "downloaded"
  /\ IF JobColumns \subseteq Columns(rdf)
     THEN result' = JobRecords(rdf) /\ rpc' = "computed" /\ UNCHANGED failed
     ELSE result' = result /\ rpc' = "crashed" /\ failed' = "compute"
  /\ UNCHANGED <<csv, pc, create_result, rdf, results_json, returned>>
  /\ UNCHANGED pipeVars

\* Save results (simulated NoSQL); open() may raise.
Save(ok) ==
  /\ rpc = "computed"
  /\ IF ok
     THEN results_json' = [written |-> TRUE, data |-> result] /\ rpc' = "saved"
          /\ UNCHANGED failed
     ELSE results_json' = results_json /\ rpc' = "crashed" /\ failed' = "save"
  /\ UNCHANGED <<csv, pc, create_result, rdf, result, returned>>
  /\ UNCHANGED pipeVars

Return ==
  /\ rpc = "saved"
  /\ returned' = "Data processed and stored successfully."
  /\ rpc' = "returned"
  /\ UNCHANGED <<csv, pc, create_result, failed, rdf, result, results_json>>
  /\ UNCHANGED pipeVars

Next ==
  \/ Load
  \/ Clean
  \/ DetectColumns
  \/ AverageMacros
  \/ Top5
  \/ HighestProtein
  \/ CommonCuisines
  \/ Ratios
  \/ Charts
  \/ Finish
  \/ \E outcome \in CreateOutcomes : CreateContainer(outcome)
  \/ \E ok \in BOOLEAN : Download(ok)
  \/ Compute
  \/ \E ok \in BOOLEAN : Save(ok)
  \/ Return

Spec == Init /\ [][Next]_vars

(***************************************************************************)
(* Properties.                                                             *)
(***************************************************************************)
AfterCleaning == pc = "cleaned"

\* The diet types of a table: the distinct non-missing values of its diet column.
DietTypes(dietcol) == {dietcol[i][2] : i \in {k \in 1..Len(dietcol) : IsStr(dietcol[k])}}

\* The rows of diet type d.
RowsOf(dietcol, d) == {i \in 1..Len(dietcol) : dietcol[i] = Str(d)}

\* The next double above x > 0.
FSucc(x) == Incr(x[1], x[2], x[3])

\* Doubles a and b are at most k units in the last place apart.
RECURSIVE WithinUlps(_, _, _)
WithinUlps(a, b, k) ==
  \/ a = b
  \/ /\ k > 0
     /\ ~IsZero(a)
     /\ ~IsZero(b)
     /\ IF FLt(a, b) THEN WithinUlps(FSucc(a), b, k - 1) ELSE WithinUlps(a, FSucc(b), k - 1)

\* C1 (as claimed): right after the cleaning step no numeric column has a
\* missing value, whatever the input table, a column with no value at all
\* included; the count the script prints as "after" is zero.
C1_NoMissingAfterCleaning ==
  AfterCleaning =>
    /\ \A c \in numeric_cols(df) : CountNA(df.col[c]) = 0
    /\ missing_after = 0

ColumnsDetected == pc \notin {"start", "loaded", "cleaned"}

\* C3: each field resolves to the earliest name of its candidate list that is
\* a column of the table, and to None when no candidate is a column; so a
\* field spelled in exactly one accepted way resolves to that spelling.
C3_FirstCandidatePresent ==
  ColumnsDetected =>
    \A f \in Fields :
      LET cand == Candidates(f)
          present == {i \in 1..Len(cand) : cand[i] \in Columns(csv)}
      IN /\ (cols[f] = None) <=> (present = {})
         /\ \A i \in present : (\A j \in present : i <= j) => cols[f] = cand[i]
         /\ \A i \in 1..Len(cand) : present = {i} => cols[f] = cand[i]

\* A field resolved to a spelling that is not the first of its list, another
\* to the earlier of two spellings present.
C3_Witness ==
  /\ pc = "detected"
  /\ \E f \in Fields : cols[f] \notin {None, Candidates(f)[1]}

Unresolved == \E f \in Fields : pick_col(Candidates(f), Columns(csv)) = None

\* C4 (as claimed): the run exits non-zero exactly when a required field
\* resolves to no column, and then right after column resolution, with no
\* aggregate, top-five, cuisine or ratio step run and no chart written;
\* when all six resolve it runs every later step and exits zero.
C4_NonZeroExitIffUnresolved ==
  /\ exit_status = "1" => Unresolved
  /\ (ColumnsDetected /\ Unresolved) =>
       /\ pc = "aborted"
       /\ exit_status = "1"
       /\ avg_macros = <<>> /\ top5_by_diet = <<>> /\ top_cuisine_per_diet = <<>>
       /\ charts = {}
       /\ Columns(df) = Columns(csv)
  /\ (PipelineEnded /\ ~Unresolved) =>
       /\ pc = "done"
       /\ exit_status = "0"
       /\ charts = ChartFiles

Averaged == pc \in {"averaged", "top5", "highest", "cuisines", "ratios", "charts", "done", "crashed"}

\* The column of df for field f, restricted to the rows of diet type d.
GroupCol(f, d) ==
  LET c == df.col[cols[f]]
  IN Keep(c, RowsOf(df.col[cols["diet"]], d))

\* C5: the aggregate table has one row per diet type, each mean is the
\* arithmetic mean of that macro over the records of the diet type, the rows
\* are in non-increasing order of mean protein (A, A, B with protein 10, 20, 5
\* give A = 15.0 before B = 5.0), and the diet reported as highest in protein
\* is that of the first row.
C5_AggregateTable ==
  Averaged =>
    LET types == DietTypes(df.col[cols["diet"]])
    IN /\ Len(avg_macros) = Cardinality(types)
       /\ {avg_macros[j].diet : j \in 1..Len(avg_macros)} = types
       /\ \A j \in 1..Len(avg_macros) :
            LET d == avg_macros[j].diet
            IN /\ avg_macros[j].protein = Mean(GroupCol("protein", d))
               /\ avg_macros[j].carbs = Mean(GroupCol("carbs", d))
               /\ avg_macros[j].fat = Mean(GroupCol("fat", d))
       /\ \A j, k \in 1..Len(avg_macros) :
            (j < k /\ IsNum(avg_macros[j].protein) /\ IsNum(avg_macros[k].protein))
              => ~FLt(avg_macros[j].protein[2], avg_macros[k].protein[2])
       /\ csv = MkTable(StdHeader, ExampleRows) =>
            /\ avg_macros[1].diet = "A" /\ avg_macros[1].protein = NumInt(15)
            /\ avg_macros[2].diet = "B" /\ avg_macros[2].protein = NumInt(5)
       /\ pc \in {"highest", "cuisines", "ratios", "charts", "done"} =>
            highest_protein_diet = avg_macros[1].diet

\* Two diet types, the second label first in the table, reported as highest.
C5_Witness ==
  /\ pc = "highest"
  /\ Len(avg_macros) = 2
  /\ avg_macros[1].diet = "B"
  /\ FLt(avg_macros[2].protein[2], avg_macros[1].protein[2])
  /\ highest_protein_diet = "B"

Selected == pc \in {"top5", "highest", "cuisines", "ratios", "charts", "done", "crashed"}

\* C6: the top-protein selection holds min(5, group size) records of every
\* diet type, never more than 5, and no record whose protein is strictly
\* below that of a record of the same diet type that was left out.
C6_TopFive ==
  Selected =>
    LET diet == df.col[cols["diet"]]
        prot == df.col[cols["protein"]]
        top  == Range(top5_by_diet)
    IN /\ Cardinality(top) = Len(top5_by_diet)
       /\ top \subseteq 1..df.n
       /\ \A d \in DietTypes(diet) :
            LET size == Cardinality(RowsOf(diet, d))
                got  == Cardinality(top \cap RowsOf(diet, d))
            IN got <= 5 /\ got = (IF size < 5 THEN size ELSE 5)
       /\ \A i \in top : \A j \in (1..df.n) \ top :
            (diet[i] = diet[j] /\ IsNum(prot[i]) /\ IsNum(prot[j]))
              => ~FLt(prot[i][2], prot[j][2])

\* A diet type of more than five records, one left out with less protein than
\* one selected.
C6_Witness ==
  /\ pc = "top5"
  /\ Len(top5_by_diet) = 5
  /\ \E j \in (1..df.n) \ Range(top5_by_diet) : \E i \in Range(top5_by_diet) :
       /\ df.col[cols["diet"]][i] = df.col[cols["diet"]][j]
       /\ IsNum(df.col[cols["protein"]][j])
       /\ FLt(df.col[cols["protein"]][j][2], df.col[cols["protein"]][i][2])

RatiosDone == pc \in {"ratios", "charts", "done"}

\* The ratio columns after the ratio step.
RatioValues ==
  RatiosDone =>
    LET p  == df.col[cols["protein"]]
        c  == df.col[cols["carbs"]]
        f  == df.col[cols["fat"]]
        pc_ratio == df.col[PCRatio]
        cf_ratio == df.col[CFRatio]
    IN \A i \in 1..df.n :
         /\ (IsNum(c[i]) /\ IsZero(c[i][2])) => IsNA(pc_ratio[i])
         /\ (IsNum(c[i]) /\ ~IsZero(c[i][2]) /\ IsNum(p[i]))
              => pc_ratio[i] = Num(FDiv(p[i][2], c[i][2]))
         /\ (p[i] = NumInt(10) /\ c[i] = NumInt(5)) => pc_ratio[i] = NumInt(2)
         /\ (IsNum(f[i]) /\ IsZero(f[i][2])) => IsNA(cf_ratio[i])
         /\ (IsNum(f[i]) /\ ~IsZero(f[i][2]) /\ IsNum(c[i]))
              => cf_ratio[i] = Num(FDiv(c[i][2], f[i][2]))
         /\ pc_ratio[i] # Inf /\ cf_ratio[i] # Inf

\* The step taken from the end of the cuisine section is the ratio step, and
\* it keeps every column the table has.
RatioStep ==
  pc = "cuisines" =>
    /\ pc' = "ratios"
    /\ exit_status' = "none"
    /\ \A k \in Columns(df) : k \in Columns(df') /\ df'.col[k] = df.col[k]

\* C7: the protein-to-carbs ratio of a record is missing (neither an error
\* nor an infinity) when its carbs are 0 and protein / carbs otherwise
\* (10 / 5 = 2.0), the carbs-to-fat ratio is missing when its fat is 0 and
\* carbs / fat otherwise; the ratio step does not end the run and leaves
\* every column the table had as it was.
C7_Ratios == [] RatioValues /\ [][RatioStep]_vars

\* A table with a record of zero carbs, one of zero fat and one whose
\* protein-to-carbs ratio is a number.
C7_Witness ==
  /\ pc = "ratios"
  /\ \E i \in 1..df.n : df.col[cols["carbs"]][i] = NumInt(0) /\ IsNA(df.col[PCRatio][i])
  /\ \E i \in 1..df.n : df.col[cols["fat"]][i] = NumInt(0) /\ IsNA(df.col[CFRatio][i])
  /\ \E i \in 1..df.n : IsNum(df.col[PCRatio][i])

\* C8: when the container already exists the job does not raise there: it
\* goes on to the download, and the array it writes to results.json has as
\* many elements as the downloaded CSV has diet types.
C8_ContainerExists ==
  create_result = "exists" =>
    /\ failed # "create"
    /\ rpc = "container" => ENABLED Download(TRUE)
    /\ results_json.written =>
         /\ rdf = csv
         /\ Len(results_json.data) = Cardinality(DietTypes(csv.col["Diet_type"]))

\* The container existed and a summary of two diet types was written.
C8_Witness ==
  /\ create_result = "exists"
  /\ rpc = "returned"
  /\ results_json.written
  /\ Len(results_json.data) = 2

\* C9 (as claimed): after a failure other than container-already-exists, in
\* any step, the job neither returns its success message nor writes
\* results.json.
C9_FailurePropagates ==
  (create_result = "error" \/ failed # "none") =>
    /\ rpc # "returned"
    /\ returned = "none"
    /\ ~results_json.written

\* C10 (as claimed): on the same dataset the job writes the same (diet type,
\* mean protein, mean carbs, mean fat) tuples as the rows of the pipeline's
\* aggregate table, for every dataset, missing numeric values included.
C10_SameMeans ==
  (pc = "done" /\ results_json.written) =>
    Range(results_json.data) = Range(avg_macros)

====
